---- MODULE Spec2Model ----
(***************************************************************************)
(* Model of src/index.ts: the retrying transport (callFlickr), the three   *)
(* fetch operations (getPhotoSet, getRecentPhotos, getPhoto) and the two   *)
(* normalizers (buildSizesSources, buildRecentSources).                    *)
(*                                                                         *)
(* JavaScript values are encoded as one-field records so that values of    *)
(* different types can be compared: undefined, a number, a string.         *)
(* Strings that the code inspects (object keys) are sequences of           *)
(* characters; strings that the code only copies are TLA+ strings.         *)
(*                                                                         *)
(* An HTTP attempt either fails or returns a well-formed body of the       *)
(* method called: a listing, a size list with decimal widths and heights,  *)
(* an info record, a list of photo records.  Three specifications share    *)
(* the variables: Spec / FairSpec run the fetch operations against a small *)
(* upstream service, SpecSizes and SpecRecent apply the normalizers to     *)
(* every input within the bounds, SpecNorm is the two together.            *)
(***************************************************************************)
EXTENDS Integers, Sequences, FiniteSets, TLC

VARIABLES
    sizesResponse,  \* normalizer input: the size list of a getSizes response
    recentResponse, \* normalizer input: photos.photo of a getPublicPhotos response
    built,          \* what the normalizer returned: [by, value]
    op,             \* the top-level operation in flight
    listing,        \* photoset.photo of the getPhotos response (sequence of ids)
    calls,          \* one record per callFlickr invocation chain
    subs,           \* one promise per element of the array given to Promise.all
    settled,        \* indices of subs in the order in which they settled
    outcome         \* the promise returned by the top-level operation

vars == <<sizesResponse, recentResponse, built,
          op, listing, calls, subs, settled, outcome>>

normVars == <<sizesResponse, recentResponse, built>>
fetchVars == <<op, listing, calls, subs, settled, outcome>>

-----------------------------------------------------------------------------
(* JavaScript values *)

Undefined == [undefined |-> TRUE]
NaN == [nan |-> TRUE]
Num(n) == [number |-> n]
Str(s) == [string |-> s]
IsNum(v) == DOMAIN v = {"number"}

\* arr[i] with a zero-based index: undefined outside the array
JsIndex(arr, i) == IF i >= 0 /\ i < Len(arr) THEN arr[i + 1] ELSE Undefined

\* arr.filter(Keep) is SelectSeq(arr, Keep).  A const x = e whose value is used
\* more than once is written CHOOSE r \in {Body : x \in {e}} : TRUE, which
\* evaluates e once, before Body.

-----------------------------------------------------------------------------
(* Constants of the module *)

FLICKR_URL_BASE == "https://www.flickr.com/photos/"

WANTED_WITHOUT_LARGE_1600 == {"Medium", "Medium 640", "Medium 800", "Large", "Large 2048"}

WANTED_IMAGE_SIZES ==
    {"Medium", "Medium 640", "Medium 800", "Large", "Large 1600", "Large 2048"}

-----------------------------------------------------------------------------
(* buildSizesSources *)

DigitValue ==
    "0" :> 0 @@ "1" :> 1 @@ "2" :> 2 @@ "3" :> 3 @@ "4" :> 4 @@
    "5" :> 5 @@ "6" :> 6 @@ "7" :> 7 @@ "8" :> 8 @@ "9" :> 9

IsDigit(c) == c \in DOMAIN DigitValue

\* the length of the leading run of decimal digits of text
DigitPrefixLen(text) ==
    Cardinality({k \in 1..Len(text) : \A i \in 1..k : IsDigit(text[i])})

\* the number written by the first n characters of text, all of them digits
RECURSIVE DecimalValue(_, _)
DecimalValue(text, n) ==
    IF n = 0 THEN 0 ELSE 10 * DecimalValue(text, n - 1) + DigitValue[text[n]]

\* parseInt(text): the value of the leading run of decimal digits, NaN if none
ParseInt(text) ==
    CHOOSE result \in {IF n = 0 THEN NaN ELSE Num(DecimalValue(text, n)) :
                          n \in {DigitPrefixLen(text)}} : TRUE

\* a comparator result that is NaN is treated by Array.prototype.sort as 0
Minus(x, y) == IF IsNum(x) /\ IsNum(y) THEN x.number - y.number ELSE 0

WidthAscending(a, b) == Minus(a.width, b.width)

\* the comparator (a, b) => b.width - a.width
WidthDescending(a, b) == Minus(b.width, a.width)

\* Array.prototype.sort is stable: s[i] ends up behind every element the
\* comparator orders before it and behind the earlier elements it ties with
SortedIndex(s, i) ==
    1 + Cardinality({j \in 1..Len(s) :
                        \/ WidthDescending(s[j], s[i]) < 0
                        \/ WidthDescending(s[j], s[i]) = 0 /\ j < i})

\* .sort((a, b) => b.width - a.width)
SortByWidth(s) ==
    [k \in 1..Len(s) |-> s[CHOOSE i \in 1..Len(s) : SortedIndex(s, i) = k]]

IsWanted(el) == el.label \in WANTED_IMAGE_SIZES

ToSource(el) ==
    [url |-> Str(el.source), width |-> ParseInt(el.width), height |-> ParseInt(el.height)]

\* .map((el) => ({url, width, height}))
MapToSource(s) == <<>> \o [i \in 1..Len(s) |-> ToSource(s[i])]

\* filter, map, sort; the mapped array is a value before it is sorted
BuildSizesSources(sizes) ==
    CHOOSE sorted \in {SortByWidth(mapped) :
                          mapped \in {MapToSource(SelectSeq(sizes, IsWanted))}} : TRUE

-----------------------------------------------------------------------------
(* The Photo records of getPhotoSet and getPhoto *)

FirstSource(photoSources) == JsIndex(photoSources, 0)

\* photoSources[photoSources.length - 1]
LastSource(photoSources) == JsIndex(photoSources, Len(photoSources) - 1)

\* the value the map callback of getPhotoSet returns for photo p
SetPhoto(p, owner, sizes) ==
    CHOOSE photo \in
        {[id |-> p.id,
          title |-> p.title,
          pageUrl |-> <<FLICKR_URL_BASE, owner, "/", p.id, "/">>,
          sources |-> photoSources,
          mainSource |-> LastSource(photoSources)] :
            photoSources \in {BuildSizesSources(sizes)}} : TRUE

IsPhotoPage(url) == url.type = "photopage"

\* the value getPhoto returns once both responses are there; reading _content
\* of undefined throws a TypeError
GetPhotoResult(photo_id, info, sizes) ==
    CHOOSE result \in
        {IF page = Undefined THEN [thrown |-> "TypeError"]
         ELSE [id |-> photo_id,
               title |-> info.title,
               pageUrl |-> page.content,
               sources |-> sources,
               mainSource |-> LastSource(sources)] :
            sources \in {BuildSizesSources(sizes)},
            page \in {JsIndex(SelectSeq(info.urls, IsPhotoPage), 0)}} : TRUE

-----------------------------------------------------------------------------
(* buildRecentSources and the Photo records of getRecentPhotos.  An upstream *)
(* photo record is the sequence of its <<key, value>> fields in key order.   *)

K_id == <<"i", "d">>
K_owner == <<"o", "w", "n", "e", "r">>
K_title == <<"t", "i", "t", "l", "e">>
P_url == <<"u", "r", "l", "_">>
P_width == <<"w", "i", "d", "t", "h", "_">>
P_height == <<"h", "e", "i", "g", "h", "t", "_">>

\* Object.keys(o): the keys in insertion order (none of them is an integer)
ObjectKeys(o) == [i \in 1..Len(o) |-> o[i][1]]

\* o[key]
Get(o, key) ==
    IF \E i \in 1..Len(o) : o[i][1] = key
    THEN o[CHOOSE i \in 1..Len(o) : o[i][1] = key][2]
    ELSE Undefined

StartsWith(text, prefix) ==
    Len(text) >= Len(prefix) /\ SubSeq(text, 1, Len(prefix)) = prefix

\* text.replace(pattern, ""): the first occurrence of pattern is removed
RemoveFirst(text, pattern) ==
    LET hits == {i \in 1..(Len(text) - Len(pattern) + 1) :
                    SubSeq(text, i, i + Len(pattern) - 1) = pattern}
    IN  IF hits = {} THEN text
        ELSE LET at == CHOOSE i \in hits : \A j \in hits : i <= j
             IN  SubSeq(text, 1, at - 1) \o SubSeq(text, at + Len(pattern), Len(text))

IsUrlKey(key) == StartsWith(key, P_url)

RecentSourceSameKey(photoResponse, key) ==
    [url |-> Get(photoResponse, key),
     height |-> Get(photoResponse, P_height \o key),
     width |-> Get(photoResponse, P_width \o key)]

RecentSource(photoResponse, key) ==
    LET sizeKey == RemoveFirst(key, P_url)
    IN  [url |-> Get(photoResponse, key),
         height |-> Get(photoResponse, P_height \o sizeKey),
         width |-> Get(photoResponse, P_width \o sizeKey)]

\* result.unshift(...) in place of result.push(...)
BuildRecentSourcesUnshift(photoResponse) ==
    LET urlKeys == SelectSeq(ObjectKeys(photoResponse), IsUrlKey)
    IN  [i \in 1..Len(urlKeys) |->
            RecentSource(photoResponse, urlKeys[Len(urlKeys) + 1 - i])]

BuildRecentSources(photoResponse) ==
    LET urlKeys == SelectSeq(ObjectKeys(photoResponse), IsUrlKey)
    IN  [i \in 1..Len(urlKeys) |-> RecentSource(photoResponse, urlKeys[i])]

\* the value the map callback of getRecentPhotos returns for record p
RecentPhoto(p) ==
    [id |-> Get(p, K_id),
     pageUrl |-> <<FLICKR_URL_BASE, Get(p, K_owner), "/", Get(p, K_id), "/">>,
     title |-> Get(p, K_title),
     mainSource |-> [url |-> Get(p, P_url \o <<"c">>),
                     height |-> Get(p, P_height \o <<"c">>),
                     width |-> Get(p, P_width \o <<"c">>)],
     sources |-> BuildRecentSources(p)]

\* response.photos.photo.map(...)
RecentPhotos(photo) == [i \in 1..Len(photo) |-> RecentPhoto(photo[i])]

-----------------------------------------------------------------------------
(* Inputs of the normalizers *)

MaxSizes == 3
MaxRecent == 2

W100 == <<"1", "0", "0">>
W500 == <<"5", "0", "0">>
W1024 == <<"1", "0", "2", "4">>
W3000 == <<"3", "0", "0", "0">>

\* a size entry of a getSizes response: width and height are decimal strings
SizeEntry(label, width) ==
    [label |-> label, source |-> <<label, width>>, width |-> width,
     height |-> CASE width = W100 -> <<"7", "5">>
                  [] width = W500 -> <<"3", "7", "5">>
                  [] width = W1024 -> <<"7", "6", "8">>
                  [] OTHER -> <<"2", "0", "0", "0">>]

SizeCatalogue ==
    {SizeEntry(l, w) : l \in {"Thumbnail", "Medium", "Large"}, w \in {W100, W500, W1024}}
    \cup {SizeEntry("Medium 640", W500), SizeEntry("Medium 800", W1024),
          SizeEntry("Large 1600", W100), SizeEntry("Large 2048", W500),
          SizeEntry("Original", W3000)}

ExampleSizes ==
    <<SizeEntry("Thumbnail", W100), SizeEntry("Medium", W500),
      SizeEntry("Large", W1024), SizeEntry("Original", W3000)>>

SizeLists ==
    UNION {[1..n -> SizeCatalogue] : n \in 0..MaxSizes} \cup {ExampleSizes}

InfoResponses ==
    {[title |-> "a title",
      urls |-> <<[type |-> "mobile", content |-> "https://m.flickr.com/p1"],
                 [type |-> "photopage", content |-> "https://www.flickr.com/p1"]>>],
     [title |-> "a title", urls |-> <<>>]}

SetEntry == [id |-> "p1", title |-> "a title"]

\* the three fields of size key k, as getPublicPhotos returns them
SizeFields(k) ==
    LET w == CASE k = "z" -> 640 [] k = "c" -> 800 [] k = "l" -> 1024 [] OTHER -> 2048
    IN  <<<<P_url \o <<k>>, Str(<<"https://live.staticflickr.com/", k>>)>>,
          <<P_height \o <<k>>, Num((w * 3) \div 4)>>,
          <<P_width \o <<k>>, Num(w)>>>>

BaseFields(id) ==
    <<<<K_id, Str(id)>>, <<K_owner, Str("owner1")>>, <<K_title, Str("a title")>>>>

FieldOrders(n) == {f \in [1..n -> 1..n] : \A i, j \in 1..n : f[i] = f[j] => i = j}

\* records with exactly the fields of size keys c and z, in every field order
TwoKeyRecords ==
    LET fields == SizeFields("c") \o SizeFields("z")
    IN  {BaseFields("p1") \o [i \in 1..Len(fields) |-> fields[f[i]]] :
            f \in FieldOrders(Len(fields))}

\* records as the service sends them for extras url_z, url_c, url_l, url_k:
\* a size the photo does not have is left out of the record
RecentCatalogue ==
    {BaseFields("p1") \o SizeFields("z") \o SizeFields("c") \o SizeFields("l"),
     BaseFields("p2") \o SizeFields("c") \o SizeFields("z"),
     BaseFields("p3") \o SizeFields("z"),
     BaseFields("p4") \o SizeFields("c"),
     BaseFields("p5")}

RecentResponses ==
    UNION {[1..n -> RecentCatalogue] : n \in 0..MaxRecent}
    \cup {<<r>> : r \in TwoKeyRecords}

NotBuilt == [by |-> "none"]

-----------------------------------------------------------------------------
(* The normalizers applied to every input *)

NormSetPhoto ==
    /\ built = NotBuilt
    /\ recentResponse = <<>>
    /\ built' = [by |-> "getPhotoSet",
                 value |-> <<SetPhoto(SetEntry, "owner1", sizesResponse)>>]
    /\ UNCHANGED <<sizesResponse, recentResponse, fetchVars>>

NormGetPhoto ==
    /\ built = NotBuilt
    /\ recentResponse = <<>>
    /\ \E info \in InfoResponses :
          built' = [by |-> "getPhoto",
                    value |-> <<GetPhotoResult("p1", info, sizesResponse)>>]
    /\ UNCHANGED <<sizesResponse, recentResponse, fetchVars>>

NormRecentPhotos ==
    /\ built = NotBuilt
    /\ sizesResponse = <<>>
    /\ built' = [by |-> "getRecentPhotos", value |-> RecentPhotos(recentResponse)]
    /\ UNCHANGED <<sizesResponse, recentResponse, fetchVars>>

FetchIdle ==
    /\ op = "none"
    /\ listing = <<>>
    /\ calls = <<>>
    /\ subs = <<>>
    /\ settled = <<>>
    /\ outcome = [state |-> "pending"]

InitSizes ==
    /\ sizesResponse \in SizeLists
    /\ recentResponse = <<>>
    /\ built = NotBuilt
    /\ FetchIdle

NextSizes == NormSetPhoto \/ NormGetPhoto

SpecSizes == InitSizes /\ [][NextSizes]_vars

InitRecent ==
    /\ sizesResponse = <<>>
    /\ recentResponse \in RecentResponses
    /\ built = NotBuilt
    /\ FetchIdle

NextRecent == NormRecentPhotos

SpecRecent == InitRecent /\ [][NextRecent]_vars

\* both normalizers, each on its own inputs
InitNorm == InitSizes \/ InitRecent

NextNorm == NextSizes \/ NextRecent

SpecNorm == InitNorm /\ [][NextNorm]_vars

-----------------------------------------------------------------------------
(* The upstream service *)

MaxPhotos == 2

PhotoIds == {"p1", "p2"}

PhotoEntry(id) == [id |-> id, title |-> <<"title of", id>>]

Listings == UNION {[1..n -> {PhotoEntry(id) : id \in PhotoIds}] : n \in 0..MaxPhotos}

\* getSizes: p1 has sizes that pass the filter, p2 has none
SizesOf(id) ==
    IF id = "p1"
    THEN <<SizeEntry("Medium", W500), SizeEntry("Original", W3000),
           SizeEntry("Large", W1024)>>
    ELSE <<SizeEntry("Thumbnail", W100), SizeEntry("Original", W1024)>>

\* getInfo: p1 has a photopage url, p2 has none
InfoOf(id) ==
    [title |-> <<"title of", id>>,
     urls |-> IF id = "p1"
              THEN <<[type |-> "photopage", content |-> "https://www.flickr.com/p1"]>>
              ELSE <<>>]

RecentOf(user) ==
    <<BaseFields("p1") \o SizeFields("z") \o SizeFields("c"), BaseFields("p3") \o SizeFields("z")>>

\* the bodies the service can answer a request with
Responses(method, arg) ==
    CASE method = "flickr.photosets.getPhotos" ->
            {[owner |-> "owner1", photo |-> l] : l \in Listings}
      [] method = "flickr.photos.getSizes" -> {SizesOf(arg)}
      [] method = "flickr.photos.getInfo" -> {InfoOf(arg)}
      [] OTHER -> {RecentOf(arg)}

-----------------------------------------------------------------------------
(* callFlickr *)

\* callFlickr(apiKey, methodName, params): retryNumber is 0 and the first GET
\* is issued before the function suspends at the await
NewCall(method, arg) ==
    [method |-> method, arg |-> arg, retryNumber |-> 0, gets |-> 1,
     log |-> <<>>, state |-> "inflight"]

CanRetryOnceMore(retryNumber) == retryNumber <= 2

\* if (retryNumber < 2)
CanRetry(retryNumber) == retryNumber < 2

AwaitingCancellable(c) ==
    c \in DOMAIN calls /\ calls[c].state = "inflight" /\ outcome.state # "rejected"

\* call c is suspended at await axios.get(url)
Awaiting(c) == c \in DOMAIN calls /\ calls[c].state = "inflight"

\* return result.data
Resolved(call, data) ==
    [method |-> call.method, arg |-> call.arg, retryNumber |-> call.retryNumber,
     gets |-> call.gets, log |-> Append(call.log, "ok"), state |-> "resolved",
     data |-> data]

\* the catch block: the recursive call issues the next GET, or the error is thrown
Caught(call) ==
    IF CanRetry(call.retryNumber)
    THEN [call EXCEPT !.retryNumber = @ + 1, !.gets = @ + 1, !.log = Append(@, "fail")]
    ELSE [call EXCEPT !.state = "rejected", !.log = Append(@, "fail")]

-----------------------------------------------------------------------------
(* Promise.all and the continuations of the three operations *)

Pending == [state |-> "pending"]
Fulfilled(v) == [state |-> "fulfilled", value |-> v]
Rejected(e) == [state |-> "rejected", error |-> e]

\* the fulfilment value of Promise.all: the values in the order of the array
ValuesInArrayOrder(ps) == [i \in 1..Len(ps) |-> ps[i].value]

\* the promise of the array that rejected first
FirstRejected(ps, order) ==
    LET bad == {k \in 1..Len(order) : ps[order[k]].state = "rejected"}
    IN  order[CHOOSE k \in bad : \A j \in bad : k <= j]

\* Promise.all(ps): rejected with the first rejection, fulfilled once every
\* promise is fulfilled
PromiseAll(ps, order) ==
    IF \E i \in 1..Len(ps) : ps[i].state = "rejected"
    THEN Rejected(ps[FirstRejected(ps, order)].error)
    ELSE IF \A i \in 1..Len(ps) : ps[i].state = "fulfilled"
         THEN Fulfilled(ValuesInArrayOrder(ps))
         ELSE Pending

\* the promise of call: what return / throw settle it with
CallPromise(call) ==
    CASE call.state = "resolved" -> Fulfilled(call.data)
      [] call.state = "rejected" -> Rejected("request failed")
      [] OTHER -> Pending

\* the promise of the async map callback of getPhotoSet for entry p
SetPhotoPromise(p, owner, call) ==
    CASE call.state = "resolved" -> Fulfilled(SetPhoto(p, owner, call.data))
      [] call.state = "rejected" -> Rejected("request failed")
      [] OTHER -> Pending

\* the promise getPhoto returns, from that of Promise.all([info, sizes])
GetPhotoPromise(photo_id, all) ==
    IF all.state # "fulfilled" THEN all
    ELSE LET r == GetPhotoResult(photo_id, all.value[1], all.value[2])
         IN  IF "thrown" \in DOMAIN r THEN Rejected(r.thrown) ELSE Fulfilled(r)

\* getPhotoSet: the promises array, empty until the listing is there
GetPhotoSetPromises(l, cs) ==
    IF cs[1].state # "resolved" THEN <<>>
    ELSE [i \in 1..Len(l) |-> SetPhotoPromise(l[i], cs[1].data.owner, cs[i + 1])]

\* as Promise.allSettled would: the values of the fulfilled promises, once
\* every promise is settled
GetPhotoSetOutcomeAllSettled(cs, ps, order) ==
    CASE cs[1].state = "rejected" -> Rejected("request failed")
      [] cs[1].state = "resolved" /\ \A i \in 1..Len(ps) : ps[i].state # "pending" ->
            Fulfilled([k \in 1..Cardinality({i \in 1..Len(ps) : ps[i].state = "fulfilled"}) |->
                         ps[SelectSeq(order, LAMBDA i : ps[i].state = "fulfilled")[k]].value])
      [] OTHER -> Pending

\* the values in the order in which the promises settled
GetPhotoSetOutcomeSettleOrder(cs, ps, order) ==
    CASE cs[1].state = "rejected" -> Rejected("request failed")
      [] cs[1].state = "resolved" /\ PromiseAll(ps, order).state = "fulfilled" ->
            Fulfilled([i \in 1..Len(order) |-> ps[order[i]].value])
      [] cs[1].state = "resolved" -> PromiseAll(ps, order)
      [] OTHER -> Pending

\* getPhotoSet: the promise it returns
GetPhotoSetOutcome(cs, ps, order) ==
    CASE cs[1].state = "rejected" -> Rejected("request failed")
      [] cs[1].state = "resolved" -> PromiseAll(ps, order)
      [] OTHER -> Pending

\* getRecentPhotos: the promise it returns
GetRecentPhotosOutcome(cs) ==
    CASE cs[1].state = "rejected" -> Rejected("request failed")
      [] cs[1].state = "resolved" -> Fulfilled(RecentPhotos(cs[1].data))
      [] OTHER -> Pending

\* getPhoto: the array given to Promise.all
GetPhotoPromises(cs) == [i \in 1..Len(cs) |-> CallPromise(cs[i])]

\* getPhoto: the promise it returns
GetPhotoOutcome(cs, ps, order) == GetPhotoPromise(cs[1].arg, PromiseAll(ps, order))

-----------------------------------------------------------------------------
(* The fetch operations as a state machine: one step per call of an exported *)
(* function and per HTTP response or error delivered by the event loop; the  *)
(* promise reactions that follow a delivery run before the next delivery.    *)

IsSubCall(c) == (op = "getPhotoSet" /\ c > 1) \/ op = "getPhoto"
SubIndex(c) == IF op = "getPhotoSet" THEN c - 1 ELSE c

\* the listing is there once the first call of getPhotoSet has returned
GotListing(c, newCall) == op = "getPhotoSet" /\ c = 1 /\ newCall.state = "resolved"

ListingAfter(c, newCall) ==
    IF GotListing(c, newCall) THEN newCall.data.photo ELSE listing

\* the map callback of getPhotoSet calls callFlickr once per listed photo
CallsAfter(c, newCall) ==
    IF GotListing(c, newCall)
    THEN [calls EXCEPT ![c] = newCall]
         \o [i \in 1..Len(newCall.data.photo) |->
                NewCall("flickr.photos.getSizes", newCall.data.photo[i].id)]
    ELSE [calls EXCEPT ![c] = newCall]

SettledAfter(c, newCall) ==
    IF IsSubCall(c) /\ newCall.state # "inflight"
    THEN Append(settled, SubIndex(c))
    ELSE settled

\* the state after call c has become newCall: the promises that depend on
\* the call are settled before the next response is delivered
Delivered(c, newCall) ==
    /\ calls' = CallsAfter(c, newCall)
    /\ listing' = ListingAfter(c, newCall)
    /\ settled' = SettledAfter(c, newCall)
    /\ subs' = CASE op = "getPhotoSet" -> GetPhotoSetPromises(listing', calls')
                 [] op = "getPhoto" -> GetPhotoPromises(calls')
                 [] OTHER -> <<>>
    /\ outcome' = CASE op = "getPhotoSet" -> GetPhotoSetOutcome(calls', subs', settled')
                    [] op = "getPhoto" -> GetPhotoOutcome(calls', subs', settled')
                    [] OTHER -> GetRecentPhotosOutcome(calls')
    /\ UNCHANGED <<op, normVars>>

CallGetPhotoSet ==
    /\ op = "none"
    /\ op' = "getPhotoSet"
    /\ calls' = <<NewCall("flickr.photosets.getPhotos", "set1")>>
    /\ UNCHANGED <<listing, subs, settled, outcome, normVars>>

CallGetRecentPhotos ==
    /\ op = "none"
    /\ op' = "getRecentPhotos"
    /\ calls' = <<NewCall("flickr.people.getPublicPhotos", "user1")>>
    /\ UNCHANGED <<listing, subs, settled, outcome, normVars>>

CallGetPhoto ==
    /\ op = "none"
    /\ \E photo_id \in PhotoIds :
          calls' = <<NewCall("flickr.photos.getInfo", photo_id),
                     NewCall("flickr.photos.getSizes", photo_id)>>
    /\ op' = "getPhoto"
    /\ subs' = <<Pending, Pending>>
    /\ UNCHANGED <<listing, settled, outcome, normVars>>

\* axios.get of call c resolves
AttemptSucceeds(c) ==
    /\ Awaiting(c)
    /\ \E data \in Responses(calls[c].method, calls[c].arg) :
          Delivered(c, Resolved(calls[c], data))

\* axios.get of call c rejects
AttemptFails(c) ==
    /\ Awaiting(c)
    /\ Delivered(c, Caught(calls[c]))

InitFetch ==
    /\ sizesResponse = <<>>
    /\ recentResponse = <<>>
    /\ built = NotBuilt
    /\ FetchIdle

\* an HTTP response or error is delivered to the call that awaits it
Deliver == \E c \in 1..Len(calls) : AttemptSucceeds(c) \/ AttemptFails(c)

NextFetch ==
    \/ CallGetPhotoSet
    \/ CallGetRecentPhotos
    \/ CallGetPhoto
    \/ Deliver

Spec == InitFetch /\ [][NextFetch]_vars

\* every request is answered or fails in the end: while a call awaits a
\* response, some response or error is delivered
FairSpec == Spec /\ WF_vars(Deliver)

-----------------------------------------------------------------------------
(* Properties of callFlickr and of the concurrent fetches (Spec, FairSpec) *)

Fails(n) == [i \in 1..n |-> "fail"]

RetryContract(call) ==
    /\ call.gets <= 3
    /\ Len(call.log) <= 3
    /\ call.state = "inflight" => call.log = Fails(call.gets - 1)
    /\ call.state = "resolved" =>
          /\ call.log = Append(Fails(call.gets - 1), "ok")
          /\ call.data \in Responses(call.method, call.arg)
    /\ call.state = "rejected" <=> call.log = Fails(3)

\* C1: one callFlickr issues at most 3 GETs; it returns the data of the first
\* attempt that succeeds, after which no attempt is made; it fails if and only
\* if three attempts failed, and only after the third.
C1_BoundedRetry == \A c \in 1..Len(calls) : RetryContract(calls[c])

C1_Witness ==
    \E c \in 1..Len(calls) :
        calls[c].state = "resolved" /\ calls[c].log = <<"fail", "fail", "ok">>

\* C2: in getPhotoSet, once the size fetch of any photo has exhausted its
\* retries the call has failed, whatever the other size fetches do, and a
\* fulfilled call carries one Photo per listed photo, never a partial list.
C2_OneFailureFailsAll ==
    op = "getPhotoSet" =>
        /\ (\E c \in 2..Len(calls) : calls[c].state = "rejected")
              => outcome.state = "rejected"
        /\ outcome.state = "fulfilled" =>
              /\ Len(outcome.value) = Len(listing)
              /\ \A c \in 1..Len(calls) : calls[c].state = "resolved"

C2_Witness ==
    /\ op = "getPhotoSet"
    /\ Len(listing) = 2
    /\ Len(settled) = 2
    /\ subs[settled[1]].state = "fulfilled"
    /\ subs[settled[2]].state = "rejected"
    /\ outcome.state = "rejected"

\* a step changes at most one call, the one whose request was answered, and
\* changes it as its own retry counter says
OwnCounterStep ==
    \A c \in 1..Len(calls) :
        calls'[c] # calls[c] =>
            /\ calls[c].state = "inflight"
            /\ calls'[c].state = "resolved" \/ calls'[c] = Caught(calls[c])
            /\ \A d \in 1..Len(calls) : d # c => calls'[d] = calls[d]

StillInFlightAfterFailure(c) ==
    c <= Len(calls) /\ outcome.state = "rejected" /\ calls[c].state = "inflight"

RanToCompletion(c) ==
    /\ c <= Len(calls)
    /\ \/ calls[c].state = "resolved"
       \/ calls[c].state = "rejected" /\ calls[c].gets = 3

\* C9: there is no cancellation: a fetch still in flight when the operation has
\* already failed goes on until it succeeds or has made its own 3 attempts, and
\* no step touches the retry counter of a fetch other than the one answered.
C9_NoCancellation ==
    /\ [][OwnCounterStep]_vars
    /\ \A c \in 1..(MaxPhotos + 1) : StillInFlightAfterFailure(c) ~> RanToCompletion(c)

C9_Witness ==
    /\ op = "getPhotoSet"
    /\ Len(settled) = 2
    /\ subs[settled[1]].state = "rejected"
    /\ subs[settled[2]].state = "fulfilled"
    /\ calls[settled[2] + 1].gets = 3

\* C10: a fulfilled getPhotoSet returns one Photo per listed photo, the i-th
\* with the id of the i-th listed photo and the sources of the size response
\* fetched for that id, in whatever order the size fetches completed.
C10_ListingOrder ==
    (op = "getPhotoSet" /\ outcome.state = "fulfilled") =>
        /\ Len(outcome.value) = Len(listing)
        /\ \A i \in 1..Len(listing) :
              /\ outcome.value[i].id = listing[i].id
              /\ calls[i + 1].arg = listing[i].id
              /\ outcome.value[i].sources = BuildSizesSources(calls[i + 1].data)

C10_Witness ==
    /\ op = "getPhotoSet"
    /\ outcome.state = "fulfilled"
    /\ Len(listing) = 2
    /\ listing[1].id # listing[2].id
    /\ settled = <<2, 1>>
    /\ calls[2].gets > 1

-----------------------------------------------------------------------------
(* Properties of the normalizers (SpecSizes, SpecRecent) *)

SixLabels ==
    {"Medium", "Medium 640", "Medium 800", "Large", "Large 1600", "Large 2048"}

\* the Photos that the normalizer built, a thrown error left out
BuiltPhotos ==
    IF built = NotBuilt THEN {}
    ELSE {built.value[i] :
            i \in {j \in 1..Len(built.value) : "sources" \in DOMAIN built.value[j]}}

BySizes == built.by \in {"getPhotoSet", "getPhoto"}

WidthAtLeast(a, b) == IsNum(a.width) /\ IsNum(b.width) /\ a.width.number >= b.width.number

WidestFirst(sources) ==
    \A i \in 1..(Len(sources) - 1) : WidthAtLeast(sources[i], sources[i + 1])

FromAllowedEntry(source) ==
    \E k \in 1..Len(sizesResponse) :
        /\ sizesResponse[k].label \in SixLabels
        /\ source = ToSource(sizesResponse[k])

\* C3: the sources built from any size list are non-increasing in width from
\* first to last, and each comes from an entry whose label is in the allow-list.
C3_SortedAndAllowed ==
    BySizes =>
        \A ph \in BuiltPhotos :
            /\ WidestFirst(ph.sources)
            /\ \A i \in 1..Len(ph.sources) : FromAllowedEntry(ph.sources[i])

C3_Witness ==
    /\ built.by = "getPhotoSet"
    /\ Len(sizesResponse) = 3
    /\ sizesResponse[1].width = W100 /\ sizesResponse[1].label = "Large"
    /\ sizesResponse[2].width = W1024 /\ sizesResponse[2].label = "Thumbnail"
    /\ sizesResponse[3].width = W500 /\ sizesResponse[3].label = "Medium"
    /\ \E ph \in BuiltPhotos : Len(ph.sources) = 2

\* C4: in a Photo of getPhotoSet or getPhoto, mainSource is the last element of
\* sources, the narrowest size kept, and is undefined when no size was kept.
C4_MainSourceIsLast ==
    BySizes =>
        \A ph \in BuiltPhotos :
            IF ph.sources = <<>> THEN ph.mainSource = Undefined
            ELSE /\ ph.mainSource = ph.sources[Len(ph.sources)]
                 /\ \A i \in 1..Len(ph.sources) : WidthAtLeast(ph.sources[i], ph.mainSource)

C4_Witness ==
    /\ built.by = "getPhoto"
    /\ \E ph \in BuiltPhotos :
          /\ Len(ph.sources) = 3
          /\ ph.sources[1].width # ph.sources[3].width
          /\ ph.mainSource.width = Num(100)

Occurrences(s, x) == Cardinality({i \in 1..Len(s) : s[i] = x})

\* C8: exactly the entries with one of the six allow-listed labels are kept,
\* each once per occurrence; for Thumbnail 100, Medium 500, Large 1024,
\* Original 3000 the sources are the 1024 entry, then the 500 entry, and
\* mainSource is the 500 entry.
C8_ExactFilter ==
    BySizes =>
        \A ph \in BuiltPhotos :
            /\ Cardinality(WANTED_IMAGE_SIZES) = 6
            /\ \A k \in 1..Len(sizesResponse) :
                  Occurrences(ph.sources, ToSource(sizesResponse[k])) =
                     IF sizesResponse[k].label \in SixLabels
                     THEN Occurrences(sizesResponse, sizesResponse[k])
                     ELSE 0
            /\ Len(ph.sources) =
                  Cardinality({k \in 1..Len(sizesResponse) :
                                  sizesResponse[k].label \in SixLabels})
            /\ sizesResponse = ExampleSizes =>
                  /\ ph.sources = <<ToSource(ExampleSizes[3]), ToSource(ExampleSizes[2])>>
                  /\ ph.sources[1].width = Num(1024)
                  /\ ph.sources[2].width = Num(500)
                  /\ ph.mainSource = ph.sources[2]

C8_Witness ==
    /\ built.by = "getPhotoSet"
    /\ sizesResponse = ExampleSizes
    /\ \E ph \in BuiltPhotos : ph.mainSource.width = Num(500)

KeysOf(record) == {record[i][1] : i \in 1..Len(record)}

HasSizesCAndZ(record) ==
    KeysOf(record) =
        {K_id, K_owner, K_title} \cup
        {prefix \o <<k>> : prefix \in {P_url, P_width, P_height}, k \in {"c", "z"}}

FieldsOfKey(record, k) ==
    [url |-> Get(record, <<"u", "r", "l", "_", k>>),
     height |-> Get(record, <<"h", "e", "i", "g", "h", "t", "_", k>>),
     width |-> Get(record, <<"w", "i", "d", "t", "h", "_", k>>)]

\* C7: for a record whose size fields are exactly those of keys c and z,
\* getRecentPhotos derives two sources, the (url, width, height) of c and that
\* of z, whatever the order of the record's fields.
C7_TwoSources ==
    built.by = "getRecentPhotos" =>
        \A i \in 1..Len(recentResponse) :
            HasSizesCAndZ(recentResponse[i]) =>
                /\ Len(built.value[i].sources) = 2
                /\ {built.value[i].sources[1], built.value[i].sources[2]} =
                      {[url |-> Str(<<"https://live.staticflickr.com/", "c">>),
                        height |-> Num(600), width |-> Num(800)],
                       [url |-> Str(<<"https://live.staticflickr.com/", "z">>),
                        height |-> Num(480), width |-> Num(640)]}
                /\ {built.value[i].sources[1], built.value[i].sources[2]} =
                      {FieldsOfKey(recentResponse[i], "c"), FieldsOfKey(recentResponse[i], "z")}

C7_Witness ==
    /\ built.by = "getRecentPhotos"
    /\ Len(recentResponse) = 1
    /\ HasSizesCAndZ(recentResponse[1])
    /\ recentResponse[1][4][1] = P_width \o <<"z">>
    /\ recentResponse[1][5][1] = P_url \o <<"c">>
    /\ recentResponse[1][9][1] = P_url \o <<"z">>
    /\ built.value[1].sources[1].width = Num(800)

\* C5: in every Photo mainSource is an element of sources when sources is not
\* empty, and is undefined when sources is empty.
C5_MainSourceInSources ==
    \A ph \in BuiltPhotos :
        IF ph.sources = <<>> THEN ph.mainSource = Undefined
        ELSE \E i \in 1..Len(ph.sources) : ph.sources[i] = ph.mainSource

\* C6: in every Photo sources is ordered largest width first and mainSource is
\* its entry of smallest width (stated for the Photos whose mainSource has a
\* width: a record without url_c is the subject of C5).
C6_WidestFirstNarrowestMain ==
    \A ph \in BuiltPhotos :
        /\ WidestFirst(ph.sources)
        /\ (ph.sources # <<>> /\ IsNum(ph.mainSource.width)) =>
              \A i \in 1..Len(ph.sources) : WidthAtLeast(ph.sources[i], ph.mainSource)

UrlFields(record) ==
    SelectSeq(record, LAMBDA f : Len(f[1]) = 5 /\ SubSeq(f[1], 1, 4) = <<"u", "r", "l", "_">>)

\* C6 as amended: a Photo of getPhotoSet or getPhoto has its sources largest
\* width first and the narrowest of them as mainSource; a Photo of
\* getRecentPhotos has one source per url_<sizeKey> field of the record, in the
\* order of those fields, and the fields of size key c as mainSource.
C6_OrderPerOperation ==
    /\ BySizes =>
          \A ph \in BuiltPhotos :
              /\ WidestFirst(ph.sources)
              /\ ph.sources # <<>> =>
                    /\ \E i \in 1..Len(ph.sources) : ph.sources[i] = ph.mainSource
                    /\ \A i \in 1..Len(ph.sources) :
                          WidthAtLeast(ph.sources[i], ph.mainSource)
    /\ built.by = "getRecentPhotos" =>
          \A i \in 1..Len(recentResponse) :
              LET fields == UrlFields(recentResponse[i])
                  ph == built.value[i]
              IN  /\ Len(ph.sources) = Len(fields)
                  /\ \A k \in 1..Len(fields) :
                        /\ ph.sources[k].url = fields[k][2]
                        /\ ph.sources[k] = FieldsOfKey(recentResponse[i], fields[k][1][5])
                  /\ ph.mainSource = FieldsOfKey(recentResponse[i], "c")

C6_Witness ==
    /\ built.by = "getRecentPhotos"
    /\ Len(recentResponse) = 2
    /\ Len(built.value[1].sources) = 3
    /\ built.value[1].sources[1].width = Num(640)
    /\ built.value[1].sources[2].width = Num(800)
    /\ built.value[1].sources[3].width = Num(1024)
    /\ built.value[1].mainSource.width = Num(800)

====
